---- MODULE Spec2Model ----
(***************************************************************************)
(* HackerNews: a stateless client facade over the Hacker News JSON API.    *)
(* Every operation performs one HTTP GET and decodes the body as JSON;     *)
(* getStories and getMaxItem compose two operations.  The model follows    *)
(* one call of one operation from the call to the settling of the promise  *)
(* it returned, with the server's answers chosen nondeterministically.     *)
(***************************************************************************)
EXTENDS Integers, Sequences, FiniteSets

(* Longest ID list the server answers with. *)
MaxLen == 3
(* Offsets and amounts reach past the end of the longest list. *)
MaxOffset == MaxLen + 1
MaxAmount == MaxLen + 1

Min(a, b) == IF a < b THEN a ELSE b
Max(a, b) == IF a > b THEN a ELSE b

(* ---------------------------------------------------------------------- *)
(* Story categories                                                        *)
(* ---------------------------------------------------------------------- *)
TYPE_TOP == "top"
TYPE_NEW == "new"
TYPE_BEST == "best"
TYPE_ASK == "ask"
TYPE_SHOW == "show"
TYPE_JOB == "job"
TYPES == {TYPE_TOP, TYPE_NEW, TYPE_BEST, TYPE_ASK, TYPE_SHOW, TYPE_JOB}

(* ---------------------------------------------------------------------- *)
(* JSON values, as res.json() decodes them                                 *)
(* ---------------------------------------------------------------------- *)
NullJson == [t |-> "null"]
ErrorJson == [t |-> "error"]
Num(n) == [t |-> "num", n |-> n]
Arr(s) == [t |-> "array", elems |-> s]
Item(id) == [t |-> "item", id |-> id]
User(name) == [t |-> "user", id |-> name]
UpdatesJson == [t |-> "updates", items |-> <<>>, profiles |-> <<>>]
(* A body that is no JSON text. *)
Malformed == [t |-> "malformed"]

(* The ID the server ranks at position i: display rank, distinct IDs. *)
RankId(i) == 10 * i
ItemIds == {RankId(i) : i \in 1..MaxLen}
UserIds == {"pg", "dang"}

(* ---------------------------------------------------------------------- *)
(* Promises                                                                *)
(* ---------------------------------------------------------------------- *)
NoPromise == [state |-> "none"]
Pending == [state |-> "pending"]
Fulfilled(v) == [state |-> "fulfilled", value |-> v]
Rejected(r) == [state |-> "rejected", reason |-> r]

(* A decoding that takes the body null for a failure. *)
ThenJsonNullThrows(p) ==
    IF p.state # "fulfilled" THEN p
    ELSE IF p.value.body \in {Malformed, [t |-> "null"]} THEN Rejected("invalid-json")
    ELSE Fulfilled(p.value.body)

(* p.then(f): f runs on the value of a fulfilled p, a rejection passes through. *)
ThenJson(p) ==
    IF p.state # "fulfilled" THEN p
    ELSE IF p.value.body = Malformed THEN Rejected("invalid-json")
    ELSE Fulfilled(p.value.body)

(* ---------------------------------------------------------------------- *)
(* HTTP                                                                    *)
(* ---------------------------------------------------------------------- *)
ItemUrl(id) == [path |-> "item", id |-> id, name |-> ""]
UserUrl(name) == [path |-> "user", id |-> 0, name |-> name]
MaxItemUrl == [path |-> "maxitem", id |-> 0, name |-> ""]
UpdatesUrl == [path |-> "updates", id |-> 0, name |-> ""]
StoriesUrl(type) == [path |-> "stories", id |-> 0, name |-> type]

NetworkError == [kind |-> "neterr", ok |-> FALSE, body |-> Malformed]
Response(ok, body) == [kind |-> "response", ok |-> ok, body |-> body]
NoResponse == [kind |-> "none", ok |-> FALSE, body |-> Malformed]

(* What the server holds under a URL. *)
ResourcesOf(url) ==
    CASE url.path = "item" -> IF url.name = "" THEN {Item(url.id)} ELSE {}
      [] url.path = "user" -> {User(url.name)}
      [] url.path = "maxitem" -> {Num(id) : id \in ItemIds}
      [] url.path = "updates" -> {UpdatesJson}
      [] url.path = "stories" -> {Arr([i \in 1..len |-> Num(RankId(i))]) : len \in 0..MaxLen}

(* Every answer a GET of url can get: no answer at all, a 2xx answer with   *)
(* the resource, with null (no such resource) or with a broken body, or a  *)
(* non-2xx answer with an error document, null or a body that is no JSON.  *)
Responses(url) ==
    {NetworkError}
    \cup {Response(TRUE, b) : b \in ResourcesOf(url) \cup {NullJson, Malformed}}
    \cup {Response(FALSE, b) : b \in {ErrorJson, NullJson, Malformed}}

(* fetch(url): rejects when no answer arrives, resolves with any answer. *)
fetch(res) ==
    IF res.kind = "neterr" THEN Rejected("fetch-error") ELSE Fulfilled(res)

(* fetch(url).then(res => res.json()).then(resjson => resjson as T) *)
GetJson(res) == ThenJson(fetch(res))

VARIABLES
    op,         \* the operation called, "" before the call
    type,       \* getStories/getStoryIds: the category
    offset,     \* getStories: offset after defaulting
    amount,     \* getStories: amount after defaulting
    requests,   \* the GETs issued so far, in order
    lastRes,    \* the answer to the first GET
    storyIds,   \* getStories: the array Promise.all maps over, after slicing
    items,      \* getStories: the getItem promise of each storyId
    values,     \* getStories: Promise.all's list of values
    completed,  \* getStories: the indices of storyIds in the order their GETs were answered
    itemRes,    \* getMaxItem: the answer to the item GET
    outcome     \* the promise the operation returned

vars == <<op, type, offset, amount, requests, lastRes, storyIds, items, values, completed,
          itemRes, outcome>>

Init ==
    /\ op = ""
    /\ type = ""
    /\ offset = 0
    /\ amount = 0
    /\ requests = <<>>
    /\ lastRes = NoResponse
    /\ storyIds = <<>>
    /\ items = <<>>
    /\ values = <<>>
    /\ completed = <<>>
    /\ itemRes = NoResponse
    /\ outcome = NoPromise

(* A call of an operation that is one GET. *)
Call(name, url) ==
    /\ op = ""
    /\ op' = name
    /\ requests' = <<url>>
    /\ outcome' = Pending
    /\ UNCHANGED <<offset, amount, lastRes, storyIds, items, values, completed, itemRes>>

getItem ==
    \E item \in ItemIds : Call("getItem", ItemUrl(item)) /\ UNCHANGED type

getUser ==
    \E userId \in UserIds : Call("getUser", UserUrl(userId)) /\ UNCHANGED type

getMaxItemId ==
    Call("getMaxItemId", MaxItemUrl) /\ UNCHANGED type

getUpdates ==
    Call("getUpdates", UpdatesUrl) /\ UNCHANGED type

getStoryIds ==
    \E t \in TYPES : Call("getStoryIds", StoriesUrl(t)) /\ type' = t

SingleGetOps == {"getItem", "getUser", "getMaxItemId", "getUpdates", "getStoryIds"}

(* The answer to the GET of a one-GET operation settles its promise. *)
Respond ==
    /\ op \in SingleGetOps
    /\ outcome = Pending
    /\ \E res \in Responses(requests[1]) :
        /\ lastRes' = res
        /\ outcome' = GetJson(res)
    /\ UNCHANGED <<op, type, offset, amount, requests, storyIds, items, values, completed, itemRes>>

(* ---------------------------------------------------------------------- *)
(* getMaxItem: getMaxItemId().then(itemId => getItem(itemId))              *)
(* ---------------------------------------------------------------------- *)
(* `${apiUrl}/item/${item}.json` for whatever value maxitem.json decoded to. *)
ItemUrlOf(v) ==
    IF v.t = "num" THEN ItemUrl(v.n) ELSE [path |-> "item", id |-> 0, name |-> v.t]

getMaxItem ==
    Call("getMaxItem", MaxItemUrl) /\ UNCHANGED type

(* The answer to maxitem.json: a failure rejects the call, a value is      *)
(* passed to getItem, which issues the second GET.                         *)
MaxItemIdRespond ==
    /\ op = "getMaxItem"
    /\ outcome = Pending
    /\ lastRes = NoResponse
    /\ \E res \in Responses(requests[1]) :
        LET p == GetJson(res) IN
        /\ lastRes' = res
        /\ IF p.state = "rejected"
           THEN outcome' = p /\ UNCHANGED requests
           ELSE outcome' = Pending /\ requests' = Append(requests, ItemUrlOf(p.value))
    /\ UNCHANGED <<op, type, offset, amount, storyIds, items, values, completed, itemRes>>

(* The answer to the item GET settles getMaxItem's promise. *)
MaxItemRespond ==
    /\ op = "getMaxItem"
    /\ outcome = Pending
    /\ Len(requests) = 2
    /\ \E res \in Responses(requests[2]) :
        /\ itemRes' = res
        /\ outcome' = GetJson(res)
    /\ UNCHANGED <<op, type, offset, amount, requests, lastRes, storyIds, items, values, completed>>

(* ---------------------------------------------------------------------- *)
(* getStories                                                              *)
(* ---------------------------------------------------------------------- *)
DefaultOffset == 0
DefaultStoriesAmount == 0
DefaultAmount == 10

(* An argument of a call: given, or left out (undefined). *)
Omitted == [given |-> FALSE, n |-> 0]
Given(n) == [given |-> TRUE, n |-> n]
Default(a, d) == IF a.given THEN a.n ELSE d
OffsetArgs == {Omitted} \cup {Given(n) : n \in 0..MaxOffset}
AmountArgs == {Omitted} \cup {Given(n) : n \in 0..MaxAmount}

(* A slice whose non-negative start is taken one element late. *)
JsSliceFromNext(s, start, end) ==
    LET len == Len(s)
        k == IF start < 0 THEN Max(len + start, 0) ELSE Min(start + 1, len)
        final == IF end < 0 THEN Max(len + end, 0) ELSE Min(end, len)
    IN [i \in 1..Max(final - k, 0) |-> s[k + i]]

(* Array.prototype.slice(start, end): a negative index counts from the end, *)
(* both are clamped to the array, an empty range gives the empty array.    *)
JsSlice(s, start, end) ==
    LET len == Len(s)
        k == IF start < 0 THEN Max(len + start, 0) ELSE Min(start, len)
        final == IF end < 0 THEN Max(len + end, 0) ELSE Min(end, len)
    IN [i \in 1..Max(final - k, 0) |-> s[k + i]]

(* A test that takes every number, 0 included, for truthy. *)
TruthyAlways(n) == TRUE

(* if (amount): 0 is falsy, every other number is truthy. *)
Truthy(n) == n # 0

(* A slice whose end is bounded by length instead of length-1. *)
SliceStoryIdsToLength(ids, off, amt) ==
    IF amt # 0
    THEN JsSlice(ids, Min(off, Len(ids) - 1), Min(off + amt, Len(ids)))
    ELSE ids

(* if (amount) storyIds = storyIds.slice(min(offset, length-1), min(offset+amount, length-1)) *)
SliceStoryIds(ids, off, amt) ==
    IF Truthy(amt)
    THEN JsSlice(ids, Min(off, Len(ids) - 1), Min(off + amt, Len(ids) - 1))
    ELSE ids

(* Promise.all: the list of values starts with one hole per element. *)
Hole == [t |-> "hole"]
PromiseAllValues(n) == [i \in 1..n |-> Hole]
(* An element fulfilled whose value is pushed in completion order. *)
ResolveElementPush(vals, index, v) ==
    LET holes == {j \in 1..Len(vals) : vals[j] = Hole}
        first == CHOOSE j \in holes : \A k \in holes : j <= k
    IN [vals EXCEPT ![first] = v]

(* An element fulfilled: its value goes to the element's own index. *)
ResolveElement(vals, index, v) == [vals EXCEPT ![index] = v]
(* A resolution that leaves the null values out of the list. *)
AllResolveWithoutNull(out, its, vals) ==
    IF out = Pending /\ \A i \in 1..Len(its) : its[i].state = "fulfilled"
    THEN Fulfilled(Arr(SelectSeq(vals, LAMBDA v : v # [t |-> "null"])))
    ELSE out

(* The returned promise resolves with the values once no element is left. *)
AllResolve(out, its, vals) ==
    IF out = Pending /\ \A i \in 1..Len(its) : its[i].state = "fulfilled"
    THEN Fulfilled(Arr(vals))
    ELSE out
(* A rejected element that is ignored. *)
AllRejectNever(out, reason) == out

(* An element rejected: the returned promise rejects unless already settled. *)
AllReject(out, reason) ==
    IF out = Pending THEN Rejected(reason) ELSE out

(* getStories(type, offset, amount): the GET of the category's ID list. *)
StartStories(t, off, amt) ==
    /\ op = ""
    /\ op' = "getStories"
    /\ type' = t
    /\ offset' = off
    /\ amount' = amt
    /\ requests' = <<StoriesUrl(t)>>
    /\ outcome' = Pending
    /\ UNCHANGED <<lastRes, storyIds, items, values, completed, itemRes>>

getStories ==
    \E t \in TYPES, off \in OffsetArgs, amt \in AmountArgs :
        StartStories(t, Default(off, DefaultOffset), Default(amt, DefaultStoriesAmount))

getTopStories ==
    \E off \in OffsetArgs, amt \in AmountArgs :
        StartStories(TYPE_TOP, Default(off, DefaultOffset), Default(amt, DefaultAmount))

getNewStories ==
    \E off \in OffsetArgs, amt \in AmountArgs :
        StartStories(TYPE_NEW, Default(off, DefaultOffset), Default(amt, DefaultAmount))

getBestStories ==
    \E off \in OffsetArgs, amt \in AmountArgs :
        StartStories(TYPE_BEST, Default(off, DefaultOffset), Default(amt, DefaultAmount))

getAskStories ==
    \E off \in OffsetArgs, amt \in AmountArgs :
        StartStories(TYPE_ASK, Default(off, DefaultOffset), Default(amt, DefaultAmount))

getShowStories ==
    \E off \in OffsetArgs, amt \in AmountArgs :
        StartStories(TYPE_SHOW, Default(off, DefaultOffset), Default(amt, DefaultAmount))

getJobStories ==
    \E off \in OffsetArgs, amt \in AmountArgs :
        StartStories(TYPE_JOB, Default(off, DefaultOffset), Default(amt, DefaultAmount))

(* A map that calls getItem twice per ID. *)
MapGetItemTwice(ids) == [i \in 1..(2 * Len(ids)) |-> ItemUrl(ids[(i + 1) \div 2])]

(* storyIds.map(storyId => this.getItem(storyId)): one GET per ID, in order. *)
MapGetItem(ids) == [i \in 1..Len(ids) |-> ItemUrl(ids[i])]

(* The numbers of a decoded array of IDs. *)
IdsOf(arr) == [i \in 1..Len(arr.elems) |-> arr.elems[i].n]

(* The answer to the ID-list GET.  A failure rejects the call.  A value    *)
(* that is no array has neither slice nor map: the handler throws and the  *)
(* call rejects.  An array is sliced and one getItem is called per ID, in  *)
(* order; Promise.all of no promises resolves at once.                     *)
StoryIdsRespond ==
    /\ op = "getStories"
    /\ outcome = Pending
    /\ lastRes = NoResponse
    /\ \E res \in Responses(requests[1]) :
        LET p == GetJson(res) IN
        /\ lastRes' = res
        /\ IF p.state = "rejected"
           THEN outcome' = p /\ UNCHANGED <<requests, storyIds, items, values, completed>>
           ELSE IF p.value.t # "array"
           THEN outcome' = Rejected("type-error")
                /\ UNCHANGED <<requests, storyIds, items, values, completed>>
           ELSE LET ids == SliceStoryIds(IdsOf(p.value), offset, amount) IN
                /\ storyIds' = ids
                /\ requests' = requests \o MapGetItem(ids)
                /\ items' = [i \in 1..Len(ids) |-> Pending]
                /\ values' = PromiseAllValues(Len(ids))
                /\ completed' = <<>>
                /\ outcome' = AllResolve(Pending, items', values')
    /\ UNCHANGED <<op, type, offset, amount, itemRes>>

(* The answer to the item GET of storyIds[i], in any order: it settles     *)
(* that getItem promise, and Promise.all reacts in the same turn.          *)
ItemRespond ==
    /\ op = "getStories"
    /\ \E i \in 1..Len(items) :
        /\ items[i] = Pending
        /\ \E res \in Responses(requests[1 + i]) :
            LET p == GetJson(res) IN
            /\ items' = [items EXCEPT ![i] = p]
            /\ completed' = Append(completed, i)
            /\ IF p.state = "fulfilled"
               THEN /\ values' = ResolveElement(values, i, p.value)
                    /\ outcome' = AllResolve(outcome, items', values')
               ELSE /\ UNCHANGED values
                    /\ outcome' = AllReject(outcome, p.reason)
    /\ UNCHANGED <<op, type, offset, amount, requests, lastRes, storyIds, itemRes>>

Next ==
    \/ getItem
    \/ getUser
    \/ getMaxItemId
    \/ getUpdates
    \/ getStoryIds
    \/ Respond
    \/ getMaxItem
    \/ MaxItemIdRespond
    \/ MaxItemRespond
    \/ getStories
    \/ getTopStories
    \/ getNewStories
    \/ getBestStories
    \/ getAskStories
    \/ getShowStories
    \/ getJobStories
    \/ StoryIdsRespond
    \/ ItemRespond

Spec == Init /\ [][Next]_vars

(* ====================================================================== *)
(* Properties                                                              *)
(* ====================================================================== *)
(* The ID-list GET of getStories was answered with an array. *)
ListAnswered ==
    /\ op = "getStories"
    /\ lastRes.kind = "response"
    /\ lastRes.body.t = "array"

(* The full ID list the server answered with. *)
IdList == IdsOf(lastRes.body)

(* Every item GET was answered with the item of its ID. *)
AllItemsFetched ==
    \A i \in 1..Len(items) : items[i].state = "fulfilled" /\ items[i].value.t = "item"

(* The items of the IDs at 0-based positions [lo, hi) of the ID list. *)
ItemsAt(lo, hi) == [i \in 1..(hi - lo) |-> Item(IdList[lo + i])]

C2_OffsetBeyondEnd ==
    (ListAnswered /\ offset >= Len(IdList)) =>
        /\ outcome = Fulfilled(Arr(<<>>))
        /\ Len(requests) = 1

(* C3: with amount > 0 and offset + amount within the list, exactly amount *)
(* item GETs are issued, for positions offset .. offset+amount-1, and a    *)
(* resolved call holds exactly amount stories.                             *)
C3_ExactlyAmount ==
    (ListAnswered /\ amount > 0 /\ offset + amount <= Len(IdList)) =>
        /\ Len(items) = amount
        /\ \A i \in 1..Len(items) : requests[1 + i] = ItemUrl(IdList[offset + i])
        /\ outcome.state = "fulfilled" => Len(outcome.value.elems) = amount

LastUnreached ==
    LET last == IdList[Len(IdList)] IN
    /\ \A i \in 1..Len(requests) : requests[i] # ItemUrl(last)
    /\ outcome.state = "fulfilled" =>
        \A i \in 1..Len(outcome.value.elems) : outcome.value.elems[i] # Item(last)

C6_FailFast ==
    /\ [](op = "getStories" =>
            /\ (\E i \in 1..Len(items) : items[i].state = "rejected")
                    => outcome.state = "rejected"
            /\ outcome.state = "fulfilled"
                    => \A i \in 1..Len(items) : items[i].state = "fulfilled")
    /\ [][(op = "getStories" /\ outcome.state \in {"fulfilled", "rejected"})
            => outcome' = outcome]_vars
    /\ [][(op = "getStories" /\ outcome = Pending
            /\ \E i \in 1..Len(items) : items[i] = Pending /\ items'[i].state = "rejected")
            => outcome' \in {Rejected("fetch-error"), Rejected("invalid-json")}]_vars

(* C6 witness: one item fetch failed, another is pending, the call has failed. *)
C6_Witness ==
    /\ op = "getStories"
    /\ outcome.state = "rejected"
    /\ \E i, j \in 1..Len(items) : items[i].state = "rejected" /\ items[j] = Pending

(* C7: in getStories, a resolved call means every item fetch completed,    *)
(* and the result holds at position i what the GET of storyIds[i] was      *)
(* answered with, whatever the order of the answers; and once every item   *)
(* fetch is fulfilled the call is resolved.                                *)
C7_ResultOrder ==
    op = "getStories" =>
        /\ outcome.state = "fulfilled" =>
            /\ Len(outcome.value.elems) = Len(storyIds)
            /\ Len(completed) = Len(storyIds)
            /\ \A i \in 1..Len(storyIds) :
                /\ items[i].state = "fulfilled"
                /\ outcome.value.elems[i] = items[i].value
                /\ outcome.value.elems[i] \in {Item(storyIds[i]), NullJson, ErrorJson}
        /\ (ListAnswered /\ \A i \in 1..Len(items) : items[i].state = "fulfilled")
            => outcome.state = "fulfilled"

(* C7 witness: the second item was answered before the first, and the      *)
(* result holds the items in list order.                                   *)
C7_Witness ==
    /\ op = "getStories"
    /\ completed = <<2, 1>>
    /\ outcome = Fulfilled(Arr(<<Item(storyIds[1]), Item(storyIds[2])>>))

(* A GET that failed in transport: no answer, a non-2xx answer, or a body  *)
(* that is no JSON.                                                        *)
TransportFailure(res) ==
    \/ res.kind = "neterr"
    \/ res.kind = "response" /\ (~res.ok \/ res.body = Malformed)

(* C8: a transport failure of the GET behind getItem, getUser,             *)
(* getMaxItemId, getStoryIds or getUpdates rejects the call: it never      *)
(* resolves with a value, and never with null.                             *)
C8_TransportFailureRejects ==
    (op \in SingleGetOps /\ TransportFailure(lastRes)) => outcome.state = "rejected"

C10_RequestOrder ==
    op = "getStories" =>
        /\ Len(requests) >= 1
        /\ requests[1] = StoriesUrl(type)
        /\ lastRes = NoResponse => (Len(requests) = 1 /\ outcome = Pending)
        /\ (lastRes # NoResponse /\ ~ListAnswered)
            => (Len(requests) = 1 /\ outcome.state = "rejected")
        /\ ListAnswered =>
            /\ Len(requests) = 1 + Len(storyIds)
            /\ \A i \in 1..Len(storyIds) : requests[1 + i] = ItemUrl(storyIds[i])
            /\ \A i, j \in 2..Len(requests) : requests[i] = requests[j] => i = j

(* C10 witness: two IDs after slicing, three requests in all. *)
C10_Witness ==
    /\ ListAnswered
    /\ Len(storyIds) = 2
    /\ Len(requests) = 3
    /\ amount > 0

(* C11: in getStories an item GET answered with null is no error and is    *)
(* not filtered out: once every item fetch is fulfilled the call is        *)
(* resolved with a list as long as the sliced ID list, holding null at     *)
(* every position whose fetch resolved with null; a fetch resolved with    *)
(* null never fails the call by itself.  getMaxItem resolves with null     *)
(* when the item GET is answered 2xx null.                                 *)
C11_NullItemsKept ==
    /\ (ListAnswered /\ \A i \in 1..Len(items) : items[i].state = "fulfilled") =>
        /\ outcome.state = "fulfilled"
        /\ Len(outcome.value.elems) = Len(storyIds)
        /\ \A i \in 1..Len(storyIds) :
            items[i] = Fulfilled(NullJson) => outcome.value.elems[i] = NullJson
    /\ (op = "getStories" /\ outcome.state = "rejected" /\ ListAnswered) =>
        \E i \in 1..Len(items) : items[i].state = "rejected"
    /\ (op = "getMaxItem" /\ itemRes = Response(TRUE, NullJson)) =>
        outcome = Fulfilled(NullJson)

(* C11 witness: of two story IDs the second has no item: the call is       *)
(* resolved with the first item followed by null.                          *)
C11_Witness ==
    /\ ListAnswered
    /\ Len(storyIds) = 2
    /\ outcome = Fulfilled(Arr(<<Item(storyIds[1]), NullJson>>))
====
